---- MODULE Spec2Model ----
(***************************************************************************)
(* Model of the iceth canister (src/src/main.rs): a metered JSON-RPC relay *)
(* with role based authorization, a provider registry and cycle charging.  *)
(*                                                                         *)
(* Every update call of the canister is one atomic action, except the two  *)
(* relay entry points, which suspend once, on the HTTP outcall: their      *)
(* synchronous prefix is one action and the callback is a second one.      *)
(***************************************************************************)
EXTENDS Integers, Sequences, FiniteSets, TLC

(* ------------------------------ bounds -------------------------------- *)
\* how many calls that grow a counter (register_provider and the two relay
\* entry points) a behaviour holds: in SpecRelay, and in SpecAuth
MaxCalls == 2
MaxAuthCalls == 1
\* the max_response_bytes argument of the relays
MaxResponseBytes == 2
\* the fragments of a payload json_rpc_cycles_cost is evaluated on
MaxAccrualCalls == 3
MaxCostFragments == 3
\* the headers of a response transform is evaluated on
MaxHeaders == 2

(* ------------------------- program constants -------------------------- *)
INGRESS_OVERHEAD_BYTES == 100
INGRESS_MESSAGE_RECEIVED_COST == 1200000
INGRESS_MESSAGE_BYTE_RECEIVED_COST == 2000
HTTP_OUTCALL_REQUEST_COST == 400000000
HTTP_OUTCALL_BYTE_RECEIEVED_COST == 100000

INITIAL_SERVICE_HOSTS_ALLOWLIST ==
    { "cloudflare-eth.com", "ethereum.publicnode.com", "eth-mainnet.g.alchemy.com",
      "eth-goerli.g.alchemy.com", "rpc.flashbots.net", "eth-mainnet.blastapi.io",
      "ethereumnodelight.app.runonflux.io", "eth.nownodes.io", "rpc.ankr.com/eth_goerli",
      "mainnet.infura.io", "eth.getblock.io", "rpc.kriptonio.com", "api.0x.org",
      "erigon-mainnet--rpc.datahub.figment.io", "archivenode.io", "eth-mainnet.nodereal.io",
      "ethereum-mainnet.s.chainbase.online", "eth.llamarpc.com",
      "ethereum-mainnet-rpc.allthatnode.com", "api.zmok.io", "in-light.eth.linkpool.iono",
      "api.mycryptoapi.com", "mainnet.eth.cloud.ava.dono", "eth-mainnet.gateway.pokt.network" }

OPEN_RPC_ACCESS == TRUE
RPC_ALLOWLIST == {}
REGISTER_PROVIDER_ALLOWLIST == {}
FREE_RPC_ALLOWLIST == {}
AUTHORIZED_ADMIN == {}

\* enum Auth: the discriminants the code casts to u32
AuthAdmin == 1
AuthRpc == 2
AuthRegisterProvider == 3
AuthFreeRpc == 4
Auth == {AuthAdmin, AuthRpc, AuthRegisterProvider, AuthFreeRpc}

(* ------------------------------ inputs -------------------------------- *)
Principals == {"alice", "bob"}

\* the principals that install code, hence the callers of post_upgrade
Controllers == {"alice"}

\* Strings are sequences of text fragments; their byte length is the sum of
\* the fragments' lengths and concatenation is sequence concatenation.
Payloads == { <<"{", "}">> }

AllowedUrl == <<"https://", "cloudflare-eth.com">>

DirectUrls ==
    { AllowedUrl,
      <<"https://", "evil.example", "/", "rpc">>,
      <<"cloudflare-eth.com">>,
      <<"mailto:", "a@b">> }

\* a registration whose URL, key appended, keeps the allowlisted host
AllowedRegistration ==
    [chain_id |-> 1, service_url |-> <<"https://", "cloudflare-eth.com", "/", "v1", "/">>,
     api_key |-> <<"key">>, cycles_per_call |-> 5, cycles_per_message_byte |-> 3]

\* a registration whose key extends the host of its URL
OtherHostRegistration ==
    [chain_id |-> 1, service_url |-> <<"https://", "cloudflare-eth.com">>,
     api_key |-> <<".evil.example">>, cycles_per_call |-> 7, cycles_per_message_byte |-> 0]

RegisterProviderArgs == {AllowedRegistration, OtherHostRegistration}

ResponseBounds == {MaxResponseBytes}

HttpResponses ==
    { [status |-> 200, headers |-> <<[name |-> "Date", value |-> "t1"]>>, body |-> "0x1"] }

\* (RejectionCode, message) pairs of a failed outcall
HttpErrors == { [code |-> 2, message |-> "timeout"] }

\* The arguments json_rpc_cycles_cost is evaluated on: payloads grow by
\* fragments up to MaxCostFragments fragments; bounds span the u64 range
CostPayloads == { <<>>, <<"{\"jsonrpc\":\"2.0\",\"method\":\"eth_gasPrice\",\"params\":[],\"id\":1}">> }
CostFragments == {"x", "0123456789"}
CostUrls == { <<>>, AllowedUrl }
CostBounds == { <<>>, <<232, 3>>, <<0, 0, 0, 0, 1>>, <<255, 255, 255, 255, 255, 255, 255, 255>> }

\* The upstream responses transform is evaluated on: up to MaxHeaders
\* headers each
TransformHeaders ==
    { [name |-> "Date", value |-> "t1"], [name |-> "Date", value |-> "t2"],
      [name |-> "X-Request-Id", value |-> "7"] }
TransformStatuses == {200, 500}
TransformBodies == {"0x1", ""}

\* Option<T>
None == <<>>
Some(x) == <<x>>

\* the provider field of a reply that names no provider
NoProvider == -1
NoHost == ""
NoBody == ""

(* --------------------------- pure helpers ----------------------------- *)
RECURSIVE BitAnd(_, _)
BitAnd(a, b) ==
    IF a = 0 \/ b = 0 THEN 0
    ELSE (a % 2) * (b % 2) + 2 * BitAnd(a \div 2, b \div 2)

RECURSIVE BitOr(_, _)
BitOr(a, b) ==
    IF a = 0 THEN b
    ELSE IF b = 0 THEN a
    ELSE (IF (a % 2) + (b % 2) > 0 THEN 1 ELSE 0) + 2 * BitOr(a \div 2, b \div 2)

RECURSIVE StrLen(_)
StrLen(s) == IF s = <<>> THEN 0 ELSE Len(Head(s)) + StrLen(Tail(s))

RECURSIVE Flatten(_)
Flatten(s) == IF s = <<>> THEN "" ELSE Head(s) \o Flatten(Tail(s))

\* url::Url::parse followed by host_str(): the authority of a hierarchical
\* URL runs from the scheme separator to the first "/".
RECURSIVE Authority(_)
Authority(s) ==
    IF s = <<>> \/ Head(s) = "/" THEN <<>> ELSE <<Head(s)>> \o Authority(Tail(s))

ParseUrl(url) ==
    IF url = <<>> THEN [ok |-> FALSE, host |-> NoHost]
    ELSE IF Head(url) = "mailto:" THEN [ok |-> TRUE, host |-> NoHost]
    ELSE IF Head(url) = "https://" /\ Authority(Tail(url)) # <<>>
         THEN [ok |-> TRUE, host |-> Flatten(Authority(Tail(url)))]
    ELSE [ok |-> FALSE, host |-> NoHost]

json_rpc_cycles_cost(json_rpc_payload, service_url, max_response_bytes) ==
    LET ingress_bytes == (StrLen(json_rpc_payload) + StrLen(service_url)) + INGRESS_OVERHEAD_BYTES
    IN  INGRESS_MESSAGE_RECEIVED_COST
        + INGRESS_MESSAGE_BYTE_RECEIVED_COST * ingress_bytes
        + HTTP_OUTCALL_REQUEST_COST
        + HTTP_OUTCALL_BYTE_RECEIEVED_COST * (ingress_bytes + max_response_bytes)

\* the provider's byte rate multiplied by the length of the payload
json_rpc_provider_cycles_cost_per_byte(json_rpc_payload, provider_cycles_per_call, provider_cycles_per_message_byte) ==
    provider_cycles_per_call + provider_cycles_per_message_byte * StrLen(json_rpc_payload)

\* fn json_rpc_provider_cycles_cost: the three terms are added
json_rpc_provider_cycles_cost(json_rpc_payload, provider_cycles_per_call, provider_cycles_per_message_byte) ==
    provider_cycles_per_call + provider_cycles_per_message_byte + StrLen(json_rpc_payload)

\* Unsigned integers of any width: the bytes of the number, least significant
\* first, with no zero byte at the top
RECURSIVE Wide(_)
Wide(n) == IF n = 0 THEN <<>> ELSE <<n % 256>> \o Wide(n \div 256)

RECURSIVE Narrow(_)
Narrow(w) == IF w = <<>> THEN 0 ELSE Head(w) + 256 * Narrow(Tail(w))

RECURSIVE AddCarry(_, _, _)
AddCarry(a, b, carry) ==
    IF a = <<>> /\ b = <<>> THEN Wide(carry)
    ELSE LET x == (IF a = <<>> THEN 0 ELSE Head(a)) + (IF b = <<>> THEN 0 ELSE Head(b)) + carry
         IN  <<x % 256>> \o AddCarry(IF a = <<>> THEN <<>> ELSE Tail(a),
                                     IF b = <<>> THEN <<>> ELSE Tail(b), x \div 256)

WideAdd(a, b) == AddCarry(a, b, 0)

\* the product of a wide number and a constant below 2^22
RECURSIVE MulCarry(_, _, _)
MulCarry(a, c, carry) ==
    IF a = <<>> THEN Wide(carry)
    ELSE LET x == Head(a) * c + carry
         IN  <<x % 256>> \o MulCarry(Tail(a), c, x \div 256)

WideMul(c, a) == IF c = 0 THEN <<>> ELSE MulCarry(a, c, 0)

RECURSIVE Trim(_)
Trim(w) == IF w # <<>> /\ w[Len(w)] = 0 THEN Trim(SubSeq(w, 1, Len(w) - 1)) ELSE w

\* the value kept by an unsigned type of `bytes` bytes (wrapping arithmetic)
Wrap(bytes, w) == IF Len(w) <= bytes THEN w ELSE Trim(SubSeq(w, 1, bytes))

RECURSIVE WideLess(_, _)
WideLess(a, b) ==
    IF Len(a) # Len(b) THEN Len(a) < Len(b)
    ELSE IF a = <<>> THEN FALSE
    ELSE IF a[Len(a)] # b[Len(b)] THEN a[Len(a)] < b[Len(b)]
    ELSE WideLess(SubSeq(a, 1, Len(a) - 1), SubSeq(b, 1, Len(b) - 1))

U64_BYTES == 8
U128_BYTES == 16
U64_MAX == [i \in 1..U64_BYTES |-> 255]

\* fn json_rpc_cycles_cost with every sum and product kept in an unsigned
\* type of `bytes` bytes; max_response_bytes is a wide number
CostInWidth(bytes, json_rpc_payload, service_url, max_response_bytes) ==
    LET ingress_bytes ==
            Wrap(bytes, WideAdd(Wide(StrLen(json_rpc_payload) + StrLen(service_url)),
                                Wide(INGRESS_OVERHEAD_BYTES)))
        received == Wrap(bytes, WideMul(INGRESS_MESSAGE_BYTE_RECEIVED_COST, ingress_bytes))
        response == Wrap(bytes, WideMul(HTTP_OUTCALL_BYTE_RECEIEVED_COST,
                                        Wrap(bytes, WideAdd(ingress_bytes, max_response_bytes))))
    IN  Wrap(bytes, WideAdd(
            Wrap(bytes, WideAdd(
                Wrap(bytes, WideAdd(Wide(INGRESS_MESSAGE_RECEIVED_COST), received)),
                Wide(HTTP_OUTCALL_REQUEST_COST))),
            response))

\* the arithmetic done in u64
json_rpc_cycles_cost_u64(json_rpc_payload, service_url, max_response_bytes) ==
    CostInWidth(U64_BYTES, json_rpc_payload, service_url, max_response_bytes)

\* the response term charged on the bound alone, not on the request bytes
json_rpc_cycles_cost_bound_only(json_rpc_payload, service_url, max_response_bytes) ==
    LET ingress_bytes == WideAdd(Wide(StrLen(json_rpc_payload) + StrLen(service_url)),
                                 Wide(INGRESS_OVERHEAD_BYTES))
    IN  Wrap(U128_BYTES,
             WideAdd(WideAdd(WideAdd(Wide(INGRESS_MESSAGE_RECEIVED_COST),
                                     WideMul(INGRESS_MESSAGE_BYTE_RECEIVED_COST, ingress_bytes)),
                             Wide(HTTP_OUTCALL_REQUEST_COST)),
                     WideMul(HTTP_OUTCALL_BYTE_RECEIEVED_COST, max_response_bytes)))

\* fn json_rpc_cycles_cost in the arithmetic of its types: a u64 bound, u128
\* sums and products
json_rpc_cycles_cost_u128(json_rpc_payload, service_url, max_response_bytes) ==
    CostInWidth(U128_BYTES, json_rpc_payload, service_url, max_response_bytes)

\* the headers of the upstream response passed through
transformKeepsHeaders(response) == response

\* #[query(name = "transform")] fn transform, on args.response
transform(response) ==
    [status |-> response.status, body |-> response.body, headers |-> <<>>]

(* ------------------------------- state -------------------------------- *)
VARIABLES
    auth,               \* AUTH: principal -> role bits (stable)
    providers,          \* PROVIDERS: provider id -> Provider (stable)
    next_provider_id,   \* METADATA.next_provider_id (stable)
    metrics,            \* METRICS (transient)
    allowlist,          \* SERVICE_HOSTS_ALLOWLIST (transient)
    auth_stable,        \* AUTH_STABLE (transient)
    inflight,           \* relay calls suspended on their HTTP outcall
    cycles_accepted,    \* total passed to msg_cycles_accept128 since deployment
    last,               \* the call that ran in the latest step and its reply
    granted,            \* history: roles each principal was granted
    assigned,           \* history: provider ids handed out, in order
    calls,              \* history: how many counter-growing calls ran
    evaluated           \* a pure function under evaluation: its arguments and value

vars == <<auth, providers, next_provider_id, metrics, allowlist, auth_stable, inflight,
          cycles_accepted, last, granted, assigned, calls, evaluated>>

EmptyMetrics ==
    [json_rpc_requests |-> 0,
     json_rpc_request_cycles_charged |-> 0,
     json_rpc_request_cycles_refunded |-> 0,
     json_rpc_request_err_no_permission |-> 0,
     json_rpc_request_err_service_url_host_not_allowed |-> 0,
     json_rpc_request_err_http_request_error |-> 0,
     json_rpc_host_requests |-> [h \in {} |-> 0]]

\* The reply record of a call that is not a relay
Reply(op, caller, res) ==
    [op |-> op, caller |-> caller, res |-> res, provider |-> NoProvider,
     host |-> NoHost, accepted |-> 0, body |-> NoBody, code |-> 0, message |-> ""]

(* --------------------------- authorization ---------------------------- *)
\* authorized without the open-access shortcut
authorizedStoredBitsOnly(caller, role) ==
    IF caller \in DOMAIN auth THEN BitAnd(auth[caller], role) # 0 ELSE FALSE

\* fn authorized(auth) for the given caller
authorized(caller, role) ==
    IF role = AuthRpc /\ OPEN_RPC_ACCESS THEN TRUE
    ELSE IF caller \in DOMAIN auth THEN BitAnd(auth[caller], role) # 0
    ELSE FALSE

\* the guard with its is_controller disjunct in force
is_authorized_or_controller(caller) == caller \in Controllers \/ authorized(caller, AuthAdmin)

\* fn is_authorized: authorized(Auth::Admin) and nothing else (the
\* is_controller disjunct is commented out in the source)
is_authorized(caller) == authorized(caller, AuthAdmin)

is_authorized_register_provider(caller) == authorized(caller, AuthRegisterProvider)

\* the gate open to whoever reaches it while AUTH_STABLE is empty
is_stable_authorized_or_first(caller) == caller \in auth_stable \/ auth_stable = {}

\* fn is_stable_authorized: membership of AUTH_STABLE and nothing else (the
\* is_controller disjunct is commented out in the source)
is_stable_authorized(caller) == caller \in auth_stable

\* the role stored over the bits the entry held
AuthorizeOverwrite(map, principal, role) ==
    [p \in DOMAIN map \cup {principal} |-> IF p = principal THEN role ELSE map[p]]

\* The body of fn authorize, on an explicit map
AuthorizeIn(map, principal, role) ==
    [p \in DOMAIN map \cup {principal} |->
        IF p = principal
        THEN (IF principal \in DOMAIN map THEN BitOr(map[principal], role) ELSE role)
        ELSE map[p]]

GrantIn(g, principal, roles) ==
    [p \in Principals |-> IF p = principal THEN g[p] \cup roles ELSE g[p]]

\* fn initialize: the statically configured principals
StaticRoles(p) ==
    (IF p \in RPC_ALLOWLIST THEN {AuthRpc} ELSE {})
    \cup (IF p \in REGISTER_PROVIDER_ALLOWLIST THEN {AuthRegisterProvider} ELSE {})
    \cup (IF p \in FREE_RPC_ALLOWLIST THEN {AuthFreeRpc} ELSE {})
    \cup (IF p \in AUTHORIZED_ADMIN THEN {AuthAdmin} ELSE {})

RECURSIVE OrAll(_)
OrAll(roles) ==
    IF roles = {} THEN 0
    ELSE LET r == CHOOSE x \in roles : TRUE IN BitOr(r, OrAll(roles \ {r}))

initialize(map) ==
    [p \in DOMAIN map \cup {q \in Principals : StaticRoles(q) # {}} |->
        BitOr(IF p \in DOMAIN map THEN map[p] ELSE 0, OrAll(StaticRoles(p)))]

\* #[init]: the canister as installed
Deployed ==
    /\ auth = initialize([p \in {} |-> 0])
    /\ providers = [i \in {} |-> 0]
    /\ next_provider_id = 0
    /\ metrics = EmptyMetrics
    /\ allowlist = INITIAL_SERVICE_HOSTS_ALLOWLIST
    /\ auth_stable = {}
    /\ inflight = <<>>
    /\ cycles_accepted = 0
    /\ last = Reply("init", "none", "Ok")
    /\ granted = [p \in Principals |-> StaticRoles(p)]
    /\ assigned = <<>>
    /\ calls = 0

Init == Deployed /\ evaluated = None

\* #[post_upgrade]: transient state starts afresh, stable state is kept.
\* The canister is stopped for the upgrade, and a canister stops only once
\* every outstanding call has returned.
post_upgrade(caller) ==
    /\ inflight = <<>>
    /\ allowlist' = INITIAL_SERVICE_HOSTS_ALLOWLIST
    /\ metrics' = EmptyMetrics
    /\ auth' = AuthorizeIn(AuthorizeIn(AuthorizeIn(AuthorizeIn(initialize(auth),
                    caller, AuthAdmin), caller, AuthRegisterProvider), caller, AuthRpc),
                    caller, AuthFreeRpc)
    /\ auth_stable' = {caller}
    /\ granted' = GrantIn(granted, caller, Auth)
    /\ last' = Reply("post_upgrade", caller, "Ok")
    /\ UNCHANGED <<providers, next_provider_id, inflight, cycles_accepted, assigned, calls, evaluated>>

\* #[update(guard = "is_authorized")] fn authorize
authorize(caller, principal, role) ==
    /\ IF is_authorized(caller)
       THEN /\ auth' = AuthorizeIn(auth, principal, role)
            /\ granted' = GrantIn(granted, principal, {role})
            /\ last' = Reply("authorize", caller, "Ok")
       ELSE /\ last' = Reply("authorize", caller, "Rejected")
            /\ UNCHANGED <<auth, granted>>
    /\ UNCHANGED <<providers, next_provider_id, metrics, allowlist, auth_stable, inflight,
                   cycles_accepted, assigned, calls, evaluated>>

\* #[update(guard = "is_stable_authorized")] fn stable_authorize
stable_authorize(caller, principal) ==
    /\ IF is_stable_authorized(caller)
       THEN /\ auth_stable' = auth_stable \cup {principal}
            /\ last' = Reply("stable_authorize", caller, "Ok")
       ELSE /\ last' = Reply("stable_authorize", caller, "Rejected")
            /\ UNCHANGED auth_stable
    /\ UNCHANGED <<auth, providers, next_provider_id, metrics, allowlist, inflight,
                   cycles_accepted, granted, assigned, calls, evaluated>>

\* A call behind the stable gate that changes no variable of the canister
StableGated(op, caller) ==
    /\ last' = Reply(op, caller, IF is_stable_authorized(caller) THEN "Ok" ELSE "Rejected")
    /\ UNCHANGED <<auth, providers, next_provider_id, metrics, allowlist, auth_stable,
                   inflight, cycles_accepted, granted, assigned, calls, evaluated>>

\* #[query(guard = "is_stable_authorized")] fn stable_size
stable_size(caller) == StableGated("stable_size", caller)

\* #[query(guard = "is_stable_authorized")] fn stable_read, on a range inside
\* the stable memory
stable_read(caller, offset, length) ==
    offset + length = 0 /\ StableGated("stable_read", caller)

\* #[update(guard = "is_stable_authorized")] fn stable_write, on an empty
\* buffer at an offset inside the stable memory: size <= old_size, nothing
\* grows and no byte changes
stable_write(caller, offset, buffer) ==
    offset = 0 /\ buffer = <<>> /\ StableGated("stable_write", caller)

(* -------------------------- provider registry ------------------------- *)
\* the closure's value `metadata.next_provider_id - 1` of the clone after
\* `next_provider_id += 1`
NewProviderId == (next_provider_id + 1) - 1

\* the cell set to what it held, not to the incremented clone
StoredNextProviderIdStale == next_provider_id

\* `m.borrow_mut().set(metadata.clone())`: the incremented clone is stored
StoredNextProviderId == next_provider_id + 1

\* #[update(guard = "is_authorized_register_provider")] fn register_provider
register_provider(caller, provider) ==
    /\ calls' = calls + 1
    /\ IF is_authorized_register_provider(caller)
       THEN LET provider_id == NewProviderId
            IN  /\ next_provider_id' = StoredNextProviderId
                /\ providers' =
                     [i \in DOMAIN providers \cup {provider_id} |->
                        IF i = provider_id
                        THEN [provider_id |-> provider_id,
                              owner |-> caller,
                              chain_id |-> provider.chain_id,
                              service_url |-> provider.service_url,
                              api_key |-> provider.api_key,
                              cycles_per_call |-> provider.cycles_per_call,
                              cycles_per_message_byte |-> provider.cycles_per_message_byte,
                              cycles_owed |-> 0]
                        ELSE providers[i]]
                /\ assigned' = Append(assigned, provider_id)
                /\ last' = [Reply("register_provider", caller, "Ok")
                              EXCEPT !.provider = provider_id]
       ELSE /\ last' = Reply("register_provider", caller, "Rejected")
            /\ UNCHANGED <<providers, next_provider_id, assigned>>
    /\ UNCHANGED <<auth, metrics, allowlist, auth_stable, inflight, cycles_accepted,
                   granted, evaluated>>

\* #[update(guard = "is_authorized_register_provider")] fn unregister_provider.
\* The Ref that `p.borrow()` returns in the scrutinee of the `if let` is a
\* temporary that lives to the end of the `if let`, so the `p.borrow_mut()`
\* of the owner-or-Admin branch runs while PROVIDERS is still borrowed:
\* RefCell panics (BorrowMutError), the call traps and its changes are
\* rolled back. The other branch traps by ic_cdk::trap.
unregister_provider(caller, provider_id) ==
    /\ IF ~is_authorized_register_provider(caller)
       THEN /\ last' = [Reply("unregister_provider", caller, "Rejected")
                          EXCEPT !.provider = provider_id]
            /\ UNCHANGED providers
       ELSE IF provider_id \notin DOMAIN providers
       THEN /\ last' = [Reply("unregister_provider", caller, "Ok")
                          EXCEPT !.provider = provider_id]
            /\ UNCHANGED providers
       ELSE IF providers[provider_id].owner = caller \/ authorized(caller, AuthAdmin)
       THEN /\ last' = [Reply("unregister_provider", caller, "Trap")
                          EXCEPT !.provider = provider_id,
                                 !.message = "already borrowed: BorrowMutError"]
            /\ UNCHANGED providers
       ELSE /\ last' = [Reply("unregister_provider", caller, "Trap")
                          EXCEPT !.provider = provider_id, !.message = "Not authorized"]
            /\ UNCHANGED providers
    /\ UNCHANGED <<auth, next_provider_id, metrics, allowlist, auth_stable, inflight,
                   cycles_accepted, granted, assigned, calls, evaluated>>

\* the balances of the caller's providers set to zero
ProvidersWithdrawnZeroed(caller) ==
    [i \in DOMAIN providers |->
        IF providers[i].owner = caller THEN [providers[i] EXCEPT !.cycles_owed = 0]
        ELSE providers[i]]

\* What withdraw_owned_cycles leaves in PROVIDERS when deposit_cycles
\* succeeds: the arm `Ok(()) => ()` writes nothing
ProvidersAfterWithdraw(caller) == providers

\* #[update(guard = "is_authorized_register_provider")] async fn withdraw_owned_cycles:
\* the deposit_cycles call to the management canister succeeds or is rejected
withdraw_owned_cycles(caller, deposited) ==
    /\ last' = Reply("withdraw_owned_cycles", caller,
                     IF ~is_authorized_register_provider(caller) THEN "Rejected"
                     ELSE IF deposited THEN "Ok" ELSE "Trap")
    /\ providers' = IF is_authorized_register_provider(caller) /\ deposited
                    THEN ProvidersAfterWithdraw(caller)
                    ELSE providers
    /\ UNCHANGED <<auth, next_provider_id, metrics, allowlist, auth_stable,
                   inflight, cycles_accepted, granted, assigned, calls, evaluated>>

(* ------------------------------- relay -------------------------------- *)
\* the allowlist test left out
HostAllowedAny(host) == TRUE

\* a host that begins with an entry passes as well
HostAllowedByPrefix(host) ==
    \E entry \in allowlist, rest \in {"", ".evil.example"} : host = entry \o rest

\* SERVICE_HOSTS_ALLOWLIST.with(|a| a.borrow().contains(&host.as_str()))
HostAllowed(host) == host \in allowlist

\* the FreeRpc exemption left out
ChargeAlways(caller) == FALSE

\* `if !authorized(Auth::FreeRpc)` decides whether the charge block runs
ChargeSkipped(caller) == authorized(caller, AuthFreeRpc)

\* the funds test off by one
TooFewCyclesOrEqual(cycles_available, cost) == cycles_available <= cost

\* `if cycles_available < cost`
TooFewCycles(cycles_available, cost) == cycles_available < cost

\* all the attached funds accepted
AcceptAll(cycles_available, cost) == cycles_available

\* the argument of msg_cycles_accept128
AcceptAmount(cycles_available, cost) == cost

TooFewCyclesMessage(cost, cycles_available) ==
    "requires " \o ToString(cost) \o " cycles, got " \o ToString(cycles_available) \o " cycles"

\* inc_metric_entry!(json_rpc_host_requests, host)
IncHostRequests(m, host) ==
    [h \in DOMAIN m \cup {host} |-> IF h = host THEN (IF host \in DOMAIN m THEN m[host] + 1 ELSE 1) ELSE m[h]]

\* the balance started over from the fee of this call
AccrueFromZero(cycles_owed, provider_cost) == provider_cost

\* `provider.cycles_owed += provider_cost`, on the copy of the record that
\* json_rpc_provider_request read in the same message execution
Accrue(cycles_owed, provider_cost) == cycles_owed + provider_cost

\* all the attached funds counted as refunded
RefundedAll(cycles_available, cost) == cycles_available

\* `add_metric!(json_rpc_request_cycles_refunded, cycles_available - cost)`
RefundedAmount(cycles_available, cost) == cycles_available - cost

\* The funds a caller attaches to a relay whose fee would be `fee`
CyclesOffers(fee) == {0, fee - 1, fee, fee + 1}

\* the offers of a call: the fee exactly, or every offer around it
Offers(exact, fee) == IF exact THEN {fee} ELSE CyclesOffers(fee)

\* async fn json_rpc_request_internal, up to the await of make_http_request.
\* `provider` is the Option<Provider> handed in: None, or Some(the copy read
\* by json_rpc_provider_request).
json_rpc_request_internal(op, caller, json_rpc_payload, service_url, max_response_bytes, provider, cycles_available) ==
    LET call == [Reply(op, caller, "Pending") EXCEPT
                    !.provider = IF provider = None THEN NoProvider
                                 ELSE provider[1].provider_id]
        counted == [metrics EXCEPT !.json_rpc_requests = @ + 1]
        parsed_url == ParseUrl(service_url)
        host == parsed_url.host
        provider_cost ==
            IF provider = None THEN 0
            ELSE json_rpc_provider_cycles_cost(json_rpc_payload, provider[1].cycles_per_call,
                                               provider[1].cycles_per_message_byte)
        cost == json_rpc_cycles_cost(json_rpc_payload, service_url, max_response_bytes)
                + provider_cost
        accept == AcceptAmount(cycles_available, cost)
        Return(res, m) ==
            /\ last' = [call EXCEPT !.res = res]
            /\ metrics' = m
            /\ UNCHANGED <<providers, inflight, cycles_accepted>>
    IN
    /\ calls' = calls + 1
    /\ IF ~authorized(caller, AuthRpc)
       THEN Return("NoPermission",
                   [counted EXCEPT !.json_rpc_request_err_no_permission = @ + 1])
       ELSE IF ~parsed_url.ok
       THEN Return("ServiceUrlParseError", counted)
       ELSE IF host = NoHost
       THEN Return("ServiceUrlHostMissing", counted)
       ELSE IF ~HostAllowed(host)
       THEN /\ last' = [call EXCEPT !.res = "ServiceUrlHostNotAllowed", !.host = host]
            /\ metrics' = [counted EXCEPT
                             !.json_rpc_request_err_service_url_host_not_allowed = @ + 1]
            /\ UNCHANGED <<providers, inflight, cycles_accepted>>
       ELSE IF ~ChargeSkipped(caller) /\ TooFewCycles(cycles_available, cost)
       THEN /\ last' = [call EXCEPT !.res = "TooFewCycles", !.host = host,
                                    !.message = TooFewCyclesMessage(cost, cycles_available)]
            /\ metrics' = counted
            /\ UNCHANGED <<providers, inflight, cycles_accepted>>
       ELSE IF ~ChargeSkipped(caller)
       THEN /\ cycles_accepted' = cycles_accepted + accept
            /\ providers' =
                 IF provider = None THEN providers
                 ELSE [i \in DOMAIN providers \cup {provider[1].provider_id} |->
                         IF i = provider[1].provider_id
                         THEN [provider[1] EXCEPT !.cycles_owed = Accrue(@, provider_cost)]
                         ELSE providers[i]]
            /\ metrics' = [counted EXCEPT
                             !.json_rpc_request_cycles_charged = @ + cost,
                             !.json_rpc_request_cycles_refunded =
                                 @ + RefundedAmount(cycles_available, cost),
                             !.json_rpc_host_requests = IncHostRequests(@, host)]
            /\ last' = [call EXCEPT !.host = host, !.accepted = accept]
            /\ inflight' = Append(inflight, [call EXCEPT !.host = host, !.accepted = accept])
       ELSE /\ metrics' = [counted EXCEPT
                             !.json_rpc_host_requests = IncHostRequests(@, host)]
            /\ last' = [call EXCEPT !.host = host]
            /\ inflight' = Append(inflight, [call EXCEPT !.host = host])
            /\ UNCHANGED <<providers, cycles_accepted>>
    /\ UNCHANGED <<auth, next_provider_id, allowlist, auth_stable, granted, assigned, evaluated>>

\* #[update] async fn json_rpc_request
json_rpc_request(caller, json_rpc_payload, service_url, max_response_bytes, cycles_available) ==
    json_rpc_request_internal("json_rpc_request", caller, json_rpc_payload, service_url,
                              max_response_bytes, None, cycles_available)

\* #[update] async fn json_rpc_provider_request
json_rpc_provider_request(caller, json_rpc_payload, provider_id, max_response_bytes, cycles_available) ==
    IF provider_id \notin DOMAIN providers
    THEN /\ calls' = calls + 1
         /\ last' = [Reply("json_rpc_provider_request", caller, "ProviderNotFound") EXCEPT
                        !.provider = provider_id]
         /\ UNCHANGED <<auth, providers, next_provider_id, metrics, allowlist, auth_stable,
                        inflight, cycles_accepted, granted, assigned, evaluated>>
    ELSE LET provider == providers[provider_id]
             service_url == provider.service_url \o provider.api_key
         IN  json_rpc_request_internal("json_rpc_provider_request", caller, json_rpc_payload,
                                       service_url, max_response_bytes, Some(provider),
                                       cycles_available)

\* The fee of a relay through provider_id, were it charged (0 if unknown)
ProviderFee(json_rpc_payload, provider_id, max_response_bytes) ==
    IF provider_id \notin DOMAIN providers THEN 0
    ELSE LET provider == providers[provider_id]
         IN  json_rpc_cycles_cost(json_rpc_payload, provider.service_url \o provider.api_key,
                                  max_response_bytes)
             + json_rpc_provider_cycles_cost(json_rpc_payload, provider.cycles_per_call,
                                             provider.cycles_per_message_byte)

\* What the callback of inflight[i] leaves in PROVIDERS: the code after the
\* await does not write it
ProvidersAfterOutcall(i) == providers

\* the callback giving the fee back
AcceptedRolledBack(i) == cycles_accepted - inflight[i].accepted

\* What the callback of inflight[i] leaves accepted: the code after the
\* await does not refund
AcceptedAfterOutcall(i) == cycles_accepted

RemoveAt(s, i) == SubSeq(s, 1, i - 1) \o SubSeq(s, i + 1, Len(s))

\* make_http_request(..).await returned Ok((result,)): the transport has
\* applied `transform` to the upstream response
http_request_ok(i, response) ==
    /\ i \in 1..Len(inflight)
    /\ LET result == transform(response)
       IN  last' = [inflight[i] EXCEPT !.res = "Ok", !.body = result.body]
    /\ inflight' = RemoveAt(inflight, i)
    /\ providers' = ProvidersAfterOutcall(i)
    /\ cycles_accepted' = AcceptedAfterOutcall(i)
    /\ UNCHANGED <<auth, next_provider_id, metrics, allowlist, auth_stable,
                   granted, assigned, calls, evaluated>>

\* make_http_request(..).await returned Err((r, m))
http_request_err(i, err) ==
    /\ i \in 1..Len(inflight)
    /\ metrics' = [metrics EXCEPT !.json_rpc_request_err_http_request_error = @ + 1]
    /\ last' = [inflight[i] EXCEPT !.res = "HttpRequestError", !.code = err.code,
                                   !.message = err.message]
    /\ inflight' = RemoveAt(inflight, i)
    /\ providers' = ProvidersAfterOutcall(i)
    /\ cycles_accepted' = AcceptedAfterOutcall(i)
    /\ UNCHANGED <<auth, next_provider_id, allowlist, auth_stable,
                   granted, assigned, calls, evaluated>>

(* ------------------- pure functions under evaluation ------------------ *)
Canister == <<auth, providers, next_provider_id, metrics, allowlist, auth_stable, inflight,
              cycles_accepted, last, granted, assigned, calls>>

CostCall(json_rpc_payload, service_url, max_response_bytes) ==
    [json_rpc_payload |-> json_rpc_payload, service_url |-> service_url,
     max_response_bytes |-> max_response_bytes,
     value |-> Some(json_rpc_cycles_cost_u128(json_rpc_payload, service_url,
                                              max_response_bytes))]

\* json_rpc_cycles_cost is applied to the arguments drawn
json_rpc_cycles_cost_call ==
    /\ evaluated # None
    /\ evaluated[1].value = None
    /\ evaluated' = Some(CostCall(evaluated[1].json_rpc_payload, evaluated[1].service_url,
                                  evaluated[1].max_response_bytes))
    /\ UNCHANGED Canister

\* ... and then to the same arguments with a longer payload, as
\* check_json_rpc_cycles_cost does
longer_payload_call(fragment) ==
    /\ evaluated # None
    /\ evaluated[1].value # None
    /\ Len(evaluated[1].json_rpc_payload) < MaxCostFragments
    /\ evaluated' = Some(CostCall(evaluated[1].json_rpc_payload \o <<fragment>>,
                                  evaluated[1].service_url, evaluated[1].max_response_bytes))
    /\ UNCHANGED Canister

\* ... or with a larger bound
larger_bound_call(max_response_bytes) ==
    /\ evaluated # None
    /\ evaluated[1].value # None
    /\ WideLess(evaluated[1].max_response_bytes, max_response_bytes)
    /\ evaluated' = Some(CostCall(evaluated[1].json_rpc_payload, evaluated[1].service_url,
                                  max_response_bytes))
    /\ UNCHANGED Canister

\* #[query(name = "transform")]: transform is applied to the response drawn
transform_call ==
    /\ evaluated # None
    /\ evaluated[1].value = None
    /\ evaluated' = Some([evaluated[1] EXCEPT !.value = Some(transform(evaluated[1].response))])
    /\ UNCHANGED Canister

(* ---------------------------- specification --------------------------- *)
\* Every public call, with its arguments drawn from the given sets: the
\* roles authorize is called with, the registrations register_provider is
\* called with, the URLs json_rpc_request is called with and, for both relay
\* entry points, the funds attached as a function of the fee. At most
\* `budget` calls grow a counter of the canister.
Calls(budget, roles, registrations, urls, exact) ==
    \/ \E caller \in Controllers : post_upgrade(caller)
    \/ \E caller, principal \in Principals, role \in roles : authorize(caller, principal, role)
    \/ \E caller \in Principals, provider \in registrations :
          calls < budget /\ register_provider(caller, provider)
    \/ \E caller \in Principals, provider_id \in 0..(budget - 1) :
          unregister_provider(caller, provider_id)
    \/ \E caller \in Principals, deposited \in BOOLEAN : withdraw_owned_cycles(caller, deposited)
    \/ \E caller \in Principals, payload \in Payloads, url \in urls, bound \in ResponseBounds :
          \E avail \in Offers(exact, json_rpc_cycles_cost(payload, url, bound)) :
              calls < budget /\ json_rpc_request(caller, payload, url, bound, avail)
    \/ \E caller \in Principals, payload \in Payloads, provider_id \in 0..(budget - 1),
          bound \in ResponseBounds :
          \E avail \in Offers(exact, ProviderFee(payload, provider_id, bound)) :
              calls < budget
              /\ json_rpc_provider_request(caller, payload, provider_id, bound, avail)
    \/ \E i \in 1..Len(inflight), response \in HttpResponses : http_request_ok(i, response)
    \/ \E i \in 1..Len(inflight), err \in HttpErrors : http_request_err(i, err)

StableCalls ==
    \/ \E caller, principal \in Principals : stable_authorize(caller, principal)
    \/ \E caller \in Principals : stable_size(caller)
    \/ \E caller \in Principals : stable_read(caller, 0, 0)
    \/ \E caller \in Principals : stable_write(caller, 0, <<>>)

\* The whole interface, every argument set in full
Next ==
    \/ Calls(MaxCalls, Auth, RegisterProviderArgs, DirectUrls, FALSE)
    \/ StableCalls

Spec == Init /\ [][Next]_vars

\* Authorization in full; one registration, relays to the one allowlisted
\* URL with the exact fee attached
NextAuth == Calls(MaxAuthCalls, Auth, {AllowedRegistration}, {AllowedUrl}, TRUE)

SpecAuth == Init /\ [][NextAuth]_vars

\* Relays and registry in full; authorize grants FreeRpc only (post_upgrade
\* grants the controller every role)
NextRelay == Calls(MaxCalls, {AuthFreeRpc}, RegisterProviderArgs, DirectUrls, FALSE)

SpecRelay == Init /\ [][NextRelay]_vars

\* Accrual: one registration, relays to it and to the one allowlisted URL
\* with the exact fee attached, enough calls for two relays through the same
\* provider to be suspended at once
NextAccrual == Calls(MaxAccrualCalls, {AuthFreeRpc}, {AllowedRegistration}, {AllowedUrl}, TRUE)

SpecAccrual == Init /\ [][NextAccrual]_vars

\* The stable gate: upgrades, role grants and the four gated entry points
NextStable ==
    \/ \E caller \in Controllers : post_upgrade(caller)
    \/ \E caller, principal \in Principals, role \in Auth : authorize(caller, principal, role)
    \/ StableCalls

SpecStable == Init /\ [][NextStable]_vars

\* json_rpc_cycles_cost on arguments drawn from the sets above
InitCost ==
    /\ Deployed
    /\ evaluated \in { Some([json_rpc_payload |-> p, service_url |-> u,
                              max_response_bytes |-> b, value |-> None]) :
                          p \in CostPayloads, u \in CostUrls, b \in CostBounds }

NextCost ==
    \/ json_rpc_cycles_cost_call
    \/ \E fragment \in CostFragments : longer_payload_call(fragment)
    \/ \E max_response_bytes \in CostBounds : larger_bound_call(max_response_bytes)

SpecCost == InitCost /\ [][NextCost]_vars

\* transform on responses drawn from the sets above
RECURSIVE HeaderLists(_)
HeaderLists(n) ==
    IF n = 0 THEN { <<>> }
    ELSE HeaderLists(n - 1)
         \cup { Append(l, h) : l \in HeaderLists(n - 1), h \in TransformHeaders }

TransformInputs ==
    { [status |-> st, headers |-> hs, body |-> bd] :
        st \in TransformStatuses, hs \in HeaderLists(MaxHeaders), bd \in TransformBodies }

InitTransform ==
    /\ Deployed
    /\ evaluated \in { Some([response |-> r, value |-> None]) : r \in TransformInputs }

NextTransform == transform_call

SpecTransform == InitTransform /\ [][NextTransform]_vars

(* ------------------------------- claims ------------------------------- *)

\* C1: an authorize call changes stored role bits only if its caller was
\* granted Admin before (by the static lists, by post_upgrade or by an
\* earlier authorize(caller, Admin)).
C1_NoSelfElevation ==
    [][\A caller, principal \in Principals, role \in Auth :
          (authorize(caller, principal, role) /\ auth' # auth)
              => AuthAdmin \in granted[caller]]_vars

\* C2: register_provider advances the id counter or writes the registry
\* only if its caller was granted RegisterProvider before.
C2_RegisterNeedsRole ==
    [][\A caller \in Principals, provider \in RegisterProviderArgs :
          (register_provider(caller, provider)
             /\ (next_provider_id' # next_provider_id \/ providers' # providers))
              => AuthRegisterProvider \in granted[caller]]_vars

\* C10: with open access, authorized(identity, Rpc) is true for every
\* identity whatever its stored bits, and no relay is refused for lack of
\* permission; for every other role, authorized is false for an identity
\* with no stored entry.
C10_OpenAccessAndNoEntry ==
    /\ \A p \in Principals : OPEN_RPC_ACCESS => authorized(p, AuthRpc)
    /\ OPEN_RPC_ACCESS => last.res # "NoPermission"
    /\ \A p \in Principals \ DOMAIN auth, role \in Auth \ {AuthRpc} : ~authorized(p, role)

\* C10 witness: a relay of an identity whose stored bits lack the Rpc bit
\* was let through
C10_Witness ==
    /\ last.op = "json_rpc_request"
    /\ last.res = "Pending"
    /\ last.caller \in DOMAIN auth
    /\ BitAnd(auth[last.caller], AuthRpc) = 0

\* The relay calls this step is: the arguments (caller c, payload p, final
\* url u, bound b, provider prov, funds a) of every call of json_rpc_request,
\* and of every call of json_rpc_provider_request naming a registered
\* provider, that the step from the current state to the next one is. (Such
\* a step grows `calls` and leaves its entry point, caller and provider in
\* last'.)
RelayArgs(c, p, u, b, prov, a) == [c |-> c, p |-> p, u |-> u, b |-> b, prov |-> prov, a |-> a]

DirectRelaySteps ==
    IF calls' = calls + 1 /\ last'.op = "json_rpc_request"
    THEN UNION { { RelayArgs(last'.caller, x[1], x[2], x[3], None, a) :
                     a \in { o \in CyclesOffers(json_rpc_cycles_cost(x[1], x[2], x[3])) :
                               json_rpc_request(last'.caller, x[1], x[2], x[3], o) } } :
                 x \in Payloads \X DirectUrls \X ResponseBounds }
    ELSE {}

ProviderRelaySteps ==
    IF /\ calls' = calls + 1
       /\ last'.op = "json_rpc_provider_request"
       /\ last'.provider \in DOMAIN providers
    THEN LET id == last'.provider
             url == providers[id].service_url \o providers[id].api_key
         IN  UNION { { RelayArgs(last'.caller, x[1], url, x[2], Some(providers[id]), a) :
                         a \in { o \in CyclesOffers(ProviderFee(x[1], id, x[2])) :
                                   json_rpc_provider_request(last'.caller, x[1], id, x[2], o) } } :
                     x \in Payloads \X ResponseBounds }
    ELSE {}

RelaySteps == DirectRelaySteps \cup ProviderRelaySteps

\* The callbacks this step is: <<i, outcome>> when the step is the callback
\* of inflight[i] on that outcome of the outcall
OkSteps ==
    IF Len(inflight') < Len(inflight)
    THEN { x \in (1..Len(inflight)) \X HttpResponses : http_request_ok(x[1], x[2]) }
    ELSE {}

ErrSteps ==
    IF Len(inflight') < Len(inflight)
    THEN { x \in (1..Len(inflight)) \X HttpErrors : http_request_err(x[1], x[2]) }
    ELSE {}

\* The fee as the specification states it: the cost formula on the lengths
\* of payload and final URL, plus the provider term
StatedFee(p, u, b, prov) ==
    LET ingress == StrLen(p) + StrLen(u) + 100
    IN  1200000 + 2000 * ingress + 400000000 + 100000 * (ingress + b)
        + (IF prov = None THEN 0
           ELSE prov[1].cycles_per_call + prov[1].cycles_per_message_byte + StrLen(p))

HasHost(u) == ParseUrl(u).ok /\ ParseUrl(u).host # NoHost

HostCount(m, h) == IF h \in DOMAIN m.json_rpc_host_requests THEN m.json_rpc_host_requests[h] ELSE 0

HoldsFreeRpc(c) == c \in DOMAIN auth /\ BitAnd(auth[c], AuthFreeRpc) # 0

NothingCharged ==
    /\ cycles_accepted' = cycles_accepted
    /\ providers' = providers
    /\ metrics'.json_rpc_request_cycles_charged = metrics.json_rpc_request_cycles_charged
    /\ metrics'.json_rpc_request_cycles_refunded = metrics.json_rpc_request_cycles_refunded

\* C3, of a relay step
C3_Then(c, p, u, b, prov, a) ==
    (HasHost(u) /\ ParseUrl(u).host \notin allowlist)
        => /\ last'.res = "ServiceUrlHostNotAllowed"
           /\ last'.accepted = 0
           /\ NothingCharged
           /\ inflight' = inflight

\* C3: a relay, direct or through a provider, whose final URL has a host
\* outside the allowlist returns ServiceUrlHostNotAllowed; in that step no
\* funds are accepted, no provider record changes, the charged and refunded
\* counters keep their values and no call is forwarded.
C3_HostNotAllowedNoCharge ==
    [][\A t \in RelaySteps : C3_Then(t.c, t.p, t.u, t.b, t.prov, t.a)]_vars

\* C3 witness: a relay through a provider, by a caller who is charged, was
\* refused for its host
C3_Witness ==
    /\ last.op = "json_rpc_provider_request"
    /\ last.res = "ServiceUrlHostNotAllowed"
    /\ ~HoldsFreeRpc(last.caller)
    /\ last.provider \in DOMAIN providers

\* C4, of the step that forwards
C4_Then(c, p, u, b, prov, a) ==
    (HasHost(u) /\ ParseUrl(u).host \in allowlist /\ ~HoldsFreeRpc(c)
        /\ a >= StatedFee(p, u, b, prov))
        => /\ last'.res = "Pending"
           /\ inflight' = Append(inflight, last')
           /\ last'.accepted = StatedFee(p, u, b, prov)
           /\ cycles_accepted' = cycles_accepted + StatedFee(p, u, b, prov)
           /\ metrics'.json_rpc_requests = metrics.json_rpc_requests + 1
           /\ HostCount(metrics', ParseUrl(u).host) = HostCount(metrics, ParseUrl(u).host) + 1

\* C4, of the callback
C4_Ok(i, response) ==
    inflight[i].accepted > 0
        => /\ last'.res = "Ok"
           /\ last'.body = response.body
           /\ last'.accepted = inflight[i].accepted
           /\ cycles_accepted' = cycles_accepted
           /\ metrics' = metrics

\* C4: a relay of a caller without FreeRpc to an allowlisted host with
\* funds >= fee is forwarded; the step raises json_rpc_requests and the
\* host's counter by exactly 1 and accepts exactly the stated fee; when the
\* outcall succeeds the call returns the body of the response and what was
\* accepted stays as it is.
C4_SuccessPath ==
    [][/\ \A t \in RelaySteps : C4_Then(t.c, t.p, t.u, t.b, t.prov, t.a)
       /\ \A x \in OkSteps : C4_Ok(x[1], x[2])]_vars

\* C4 witness: a charged relay through a provider returned the body
C4_Witness ==
    /\ last.op = "json_rpc_provider_request"
    /\ last.res = "Ok"
    /\ last.accepted > 0
    /\ last.body = "0x1"

\* C5, of the step that forwards
C5_Then(c, p, u, b, prov, a) ==
    (HasHost(u) /\ ParseUrl(u).host \in allowlist /\ HoldsFreeRpc(c) /\ a = 0)
        => /\ last'.res = "Pending"
           /\ last'.accepted = 0
           /\ inflight' = Append(inflight, last')
           /\ NothingCharged
           /\ metrics'.json_rpc_requests = metrics.json_rpc_requests + 1
           /\ HostCount(metrics', ParseUrl(u).host) = HostCount(metrics, ParseUrl(u).host) + 1

\* C5, of the callback
C5_Ok(i, response) ==
    inflight[i].accepted = 0
        => /\ last'.res = "Ok"
           /\ last'.body = response.body
           /\ last'.accepted = 0
           /\ NothingCharged

\* C5: a relay of a caller holding FreeRpc, with zero funds, to an
\* allowlisted host is forwarded; nothing is accepted, no provider balance
\* moves, json_rpc_requests and the host's counter rise by 1; when the
\* outcall succeeds the call returns the body.
C5_FreeRelay ==
    [][/\ \A t \in RelaySteps : C5_Then(t.c, t.p, t.u, t.b, t.prov, t.a)
       /\ \A x \in OkSteps : C5_Ok(x[1], x[2])]_vars

\* C5 witness: a relay through a provider of a FreeRpc holder returned the
\* body with nothing accepted and nothing owed to the provider
C5_Witness ==
    /\ last.op = "json_rpc_provider_request"
    /\ last.res = "Ok"
    /\ last.accepted = 0
    /\ cycles_accepted = 0
    /\ last.provider \in DOMAIN providers
    /\ providers[last.provider].cycles_owed = 0

\* C6, of the callback
C6_Ok(i, response) ==
    (inflight[i].provider # NoProvider /\ inflight[i].provider \notin DOMAIN providers)
        => /\ last'.res = "Ok"
           /\ last'.accepted = inflight[i].accepted
           /\ cycles_accepted' = cycles_accepted
           /\ providers' = providers
           /\ inflight[i].provider \notin DOMAIN providers'

\* C6: when the outcall of a relay through a provider succeeds after the
\* provider was unregistered, the call returns Ok, the accepted fee stays
\* accepted and the registry is not written: the id is still absent.
C6_UnregisteredWhileSuspended == [][\A x \in OkSteps : C6_Ok(x[1], x[2])]_vars

\* C6, its case: no relay is ever suspended on a provider that is gone,
\* since no call removes a record (unregister_provider traps on every
\* record that exists).
C6_NoSuspendedRelayLosesItsProvider ==
    \A i \in 1..Len(inflight) :
        inflight[i].provider # NoProvider => inflight[i].provider \in DOMAIN providers

\* C7, of the step that forwards
C7_Then(c, p, u, b, prov, a) ==
    (prov # None /\ last'.res = "Pending" /\ last'.accepted > 0)
        => /\ prov[1].provider_id \in DOMAIN providers'
           /\ providers'[prov[1].provider_id].cycles_owed =
                prov[1].cycles_owed + prov[1].cycles_per_call
                + prov[1].cycles_per_message_byte + StrLen(p)

\* C7, of the callback
C7_Err(i, err) ==
    /\ last'.res = "HttpRequestError"
    /\ last'.code = err.code
    /\ last'.message = err.message
    /\ last'.accepted = inflight[i].accepted
    /\ cycles_accepted' = cycles_accepted
    /\ providers' = providers

\* C7: when the outcall fails the call returns HttpRequestError with the
\* code and message of the failure, and neither the accepted funds nor the
\* registry change; a charged relay through a provider adds the provider
\* term to cycles_owed in the step that forwards the call.
C7_FailureKeepsCharge ==
    [][/\ \A t \in RelaySteps : C7_Then(t.c, t.p, t.u, t.b, t.prov, t.a)
       /\ \A x \in ErrSteps : C7_Err(x[1], x[2])]_vars

\* C7 witness: a charged relay through a provider failed and the provider
\* still holds what it accrued
C7_Witness ==
    /\ last.op = "json_rpc_provider_request"
    /\ last.res = "HttpRequestError"
    /\ last.accepted > 0
    /\ cycles_accepted >= last.accepted
    /\ last.provider \in DOMAIN providers
    /\ providers[last.provider].cycles_owed > 0

\* C8, of a relay step
C8_Stated_Then(c, p, u, b, prov, a) ==
    (HasHost(u) /\ ~HoldsFreeRpc(c) /\ a < StatedFee(p, u, b, prov))
        => last'.res = "TooFewCycles"

\* C8 as stated, for the relays whose URL parses to a host: every relay of
\* a caller without FreeRpc whose funds are below the fee returns
\* TooFewCycles.
C8_Stated ==
    [][\A t \in RelaySteps : C8_Stated_Then(t.c, t.p, t.u, t.b, t.prov, t.a)]_vars

\* C8, of a relay step
C8_Then(c, p, u, b, prov, a) ==
    /\ (HasHost(u) /\ ParseUrl(u).host \in allowlist /\ ~HoldsFreeRpc(c)
          /\ a < StatedFee(p, u, b, prov))
          => /\ last'.res = "TooFewCycles"
             /\ last'.message = "requires " \o ToString(StatedFee(p, u, b, prov))
                                  \o " cycles, got " \o ToString(a) \o " cycles"
             /\ last'.accepted = 0
             /\ NothingCharged
             /\ inflight' = inflight
    /\ (HasHost(u) /\ ParseUrl(u).host \in allowlist /\ ~HoldsFreeRpc(c)
          /\ a = StatedFee(p, u, b, prov))
          => /\ last'.res = "Pending"
             /\ inflight' = Append(inflight, last')

\* C8 amended: a relay to an allowlisted host of a caller without FreeRpc
\* whose funds are below the fee returns TooFewCycles with a message that
\* carries the fee and the funds; nothing is accepted, no provider record
\* changes and no call is forwarded; with funds equal to the fee the relay
\* is forwarded.
C8_TooFewCycles ==
    [][\A t \in RelaySteps : C8_Then(t.c, t.p, t.u, t.b, t.prov, t.a)]_vars

\* C8 witness: a relay through a provider was refused for its funds
C8_Witness ==
    /\ last.op = "json_rpc_provider_request"
    /\ last.res = "TooFewCycles"
    /\ last.provider \in DOMAIN providers

\* C9: the ids handed out by register_provider are strictly increasing,
\* whatever unregister_provider calls come in between; every stored
\* provider is stored under its own id, which is below the counter.
C9_IdsStrictlyIncreasing ==
    /\ \A i, j \in 1..Len(assigned) : i < j => assigned[i] < assigned[j]
    /\ \A i \in 1..Len(assigned) : assigned[i] < next_provider_id
    /\ \A id \in DOMAIN providers :
          /\ providers[id].provider_id = id
          /\ id < next_provider_id
          /\ \E i \in 1..Len(assigned) : assigned[i] = id

\* C9 witness: a second register_provider ran and both providers are
\* stored
C9_Witness ==
    /\ last.op = "register_provider"
    /\ last.res = "Ok"
    /\ Len(assigned) = 2
    /\ assigned[1] < assigned[2]
    /\ DOMAIN providers = {assigned[1], assigned[2]}

\* C11: roles are additive. In every step each stored entry is kept and its
\* bits stay set; an accepted authorize(principal, role) leaves the role's
\* bits set in the principal's entry (created if absent), leaves every
\* other entry as it was, and a second identical call would change nothing;
\* the four grants of post_upgrade leave the bits of all four roles set in
\* the entry of its caller.
C11_RolesAdditive ==
    [][/\ \A p \in DOMAIN auth :
             p \in DOMAIN auth' /\ BitAnd(auth[p], auth'[p]) = auth[p]
       /\ last'.op = "post_upgrade"
             => /\ last'.caller \in DOMAIN auth'
                /\ \A role \in Auth : BitAnd(auth'[last'.caller], role) = role
       /\ \A caller, principal \in Principals, role \in Auth :
             (authorize(caller, principal, role) /\ last'.res = "Ok")
                 => /\ principal \in DOMAIN auth'
                    /\ BitAnd(auth'[principal], role) = role
                    /\ \A q \in DOMAIN auth' \ {principal} :
                          q \in DOMAIN auth /\ auth'[q] = auth[q]
                    /\ AuthorizeIn(auth', principal, role) = auth']_vars

\* C11 witness: an entry that holds the bits of two separate grants
C11_Witness ==
    /\ last.op = "authorize"
    /\ last.res = "Ok"
    /\ "bob" \in DOMAIN auth
    /\ granted["bob"] = {AuthAdmin, AuthFreeRpc}
    /\ auth["bob"] = 5

\* C12: unregister_provider removes the record if and only if it exists and
\* the caller is its owner or holds Admin; an id that is not stored changes
\* nothing; a record of another owner, the caller not Admin, makes the call
\* trap and stays as it is.
C12_UnregisterRemoves ==
    [][\A caller \in Principals, id \in 0..(MaxCalls - 1) :
          (unregister_provider(caller, id) /\ is_authorized_register_provider(caller))
              => IF id \notin DOMAIN providers
                 THEN providers' = providers /\ last'.res = "Ok"
                 ELSE IF providers[id].owner = caller \/ authorized(caller, AuthAdmin)
                 THEN /\ last'.res = "Ok"
                      /\ providers' = [i \in DOMAIN providers \ {id} |-> providers[i]]
                 ELSE /\ last'.res = "Trap"
                      /\ providers' = providers]_vars

\* C13: between two evaluations of json_rpc_cycles_cost that differ in the
\* payload alone, the longer payload costs strictly more; between two that
\* differ in the bound alone, the larger bound costs strictly more; and ten
\* bytes appended to the payload raise the cost by exactly
\* 10 * (2000 + 100000).
C13_CostStrictlyIncreasing ==
    [][(evaluated # None /\ evaluated[1].value # None /\ evaluated'[1].value # None)
          => LET before == evaluated[1]
                 after == evaluated'[1]
             IN  /\ (/\ StrLen(after.json_rpc_payload) > StrLen(before.json_rpc_payload)
                     /\ after.service_url = before.service_url
                     /\ after.max_response_bytes = before.max_response_bytes)
                       => WideLess(before.value[1], after.value[1])
                 /\ (/\ WideLess(before.max_response_bytes, after.max_response_bytes)
                     /\ after.service_url = before.service_url
                     /\ after.json_rpc_payload = before.json_rpc_payload)
                       => WideLess(before.value[1], after.value[1])
                 /\ (/\ after.json_rpc_payload = before.json_rpc_payload \o <<"0123456789">>
                     /\ after.service_url = before.service_url
                     /\ after.max_response_bytes = before.max_response_bytes)
                       => after.value[1]
                            = WideAdd(before.value[1], Wide(10 * (2000 + 100000)))]_vars

\* C13 witness: the cost of the request of check_json_rpc_cycles_cost with
\* "0123456789" appended to its payload, after the cost of the request itself
C13_Witness ==
    /\ evaluated # None
    /\ evaluated[1].value # None
    /\ Len(evaluated[1].json_rpc_payload) = 2
    /\ <<evaluated[1].json_rpc_payload[1]>> \in CostPayloads
    /\ evaluated[1].json_rpc_payload[2] = "0123456789"
    /\ evaluated[1].service_url = AllowedUrl
    /\ evaluated[1].max_response_bytes = Wide(1000)

\* The cost as the specification states it, in exact arithmetic
StatedCostExact(payload_len, url_len, bound) ==
    LET ingress == WideAdd(Wide(payload_len + url_len), Wide(100))
    IN  WideAdd(WideAdd(WideAdd(Wide(1200000), WideMul(2000, ingress)), Wide(400000000)),
                WideMul(100000, WideAdd(ingress, bound)))

\* C14: every value of json_rpc_cycles_cost is the stated formula on the
\* lengths of payload and URL and on the bound, computed exactly: the u128
\* arithmetic of the code wraps for no bound of the u64 range. On the
\* bounds the relays are called with, it is the fee the relays charge.
C14_CostFormula ==
    (evaluated # None /\ evaluated[1].value # None)
        => LET c == evaluated[1]
           IN  /\ c.value[1] = StatedCostExact(StrLen(c.json_rpc_payload),
                                               StrLen(c.service_url), c.max_response_bytes)
               /\ Len(c.value[1]) <= 16
               /\ Len(c.max_response_bytes) <= 2
                     => Narrow(c.value[1])
                          = json_rpc_cycles_cost(c.json_rpc_payload, c.service_url,
                                                 Narrow(c.max_response_bytes))

\* C14 witness: a cost on the largest u64 bound, which takes more than 64
\* bits
C14_Witness ==
    /\ evaluated # None
    /\ evaluated[1].value # None
    /\ evaluated[1].max_response_bytes = U64_MAX
    /\ evaluated[1].json_rpc_payload # <<>>
    /\ Len(evaluated[1].value[1]) > 8

\* C15, of a relay step through a stored provider
C15_Then(c, p, u, b, prov, a) ==
    (last'.res = "Pending" /\ ~HoldsFreeRpc(c))
        => LET id == prov[1].provider_id
               provider_fee == prov[1].cycles_per_call + prov[1].cycles_per_message_byte
                               + StrLen(p)
           IN  /\ last'.accepted = StatedFee(p, u, b, None) + provider_fee
               /\ cycles_accepted' = cycles_accepted + StatedFee(p, u, b, None) + provider_fee
               /\ id \in DOMAIN providers
               /\ providers' = [providers EXCEPT ![id].cycles_owed = @ + provider_fee]

\* C15: a relay through a registered provider that is forwarded for a
\* caller who is charged accepts the cost of the request plus provider_fee =
\* cycles_per_call + cycles_per_message_byte + len(payload), and raises
\* cycles_owed of that provider by exactly provider_fee; no other field of the
\* record and no other record changes.
C15_ProviderFeeAccrued ==
    [][\A t \in ProviderRelaySteps : C15_Then(t.c, t.p, t.u, t.b, t.prov, t.a)]_vars

\* C15 witness: a charged relay through provider 0, whose rates are 5 and 3,
\* on a payload of 2 bytes is suspended and the provider is owed 5 + 3 + 2
C15_Witness ==
    /\ last.op = "json_rpc_provider_request"
    /\ last.res = "Pending"
    /\ last.accepted > 0
    /\ last.provider \in DOMAIN providers
    /\ providers[last.provider].cycles_per_call = 5
    /\ providers[last.provider].cycles_per_message_byte = 3
    /\ providers[last.provider].cycles_owed = 10

\* C16: every call that is suspended on its outcall, and every host that
\* has a counter of forwarded calls, has a host that is an entry of
\* INITIAL_SERVICE_HOSTS_ALLOWLIST, character for character; and the
\* allowlist of the canister is that set in every state.
C16_ForwardedHostsAllowlisted ==
    /\ \A i \in 1..Len(inflight) : inflight[i].host \in INITIAL_SERVICE_HOSTS_ALLOWLIST
    /\ last.res = "Pending" => last.host \in INITIAL_SERVICE_HOSTS_ALLOWLIST
    /\ DOMAIN metrics.json_rpc_host_requests \subseteq INITIAL_SERVICE_HOSTS_ALLOWLIST
    /\ allowlist = INITIAL_SERVICE_HOSTS_ALLOWLIST

\* C16 witness: one call is suspended on its outcall to an allowlisted host
\* and the next one was refused for its host
C16_Witness ==
    /\ Len(inflight) > 0
    /\ inflight[1].host = "cloudflare-eth.com"
    /\ last.res = "ServiceUrlHostNotAllowed"
    /\ last.host \notin INITIAL_SERVICE_HOSTS_ALLOWLIST

StableGateOps == {"stable_authorize", "stable_size", "stable_read", "stable_write"}

\* The callers whose call to a gated entry point this step is
StableGateSteps ==
    IF last'.op \in StableGateOps
    THEN { c \in Principals :
             \/ \E principal \in Principals : stable_authorize(c, principal)
             \/ stable_size(c)
             \/ stable_read(c, 0, 0)
             \/ stable_write(c, 0, <<>>) }
    ELSE {}

\* C17 as stated: the call that reaches the stable gate first after init is
\* accepted and its caller becomes a member of AUTH_STABLE.
C17_Stated ==
    [][\A c \in StableGateSteps :
          last.op = "init" => (last'.res = "Ok" /\ c \in auth_stable')]_vars

\* C17: a call to stable_authorize, stable_size, stable_read or
\* stable_write is accepted exactly when its caller is a member of AUTH_STABLE
\* before the call, and never makes its caller a member; AUTH_STABLE changes
\* only by post_upgrade, which sets it to its caller alone, and by an accepted
\* stable_authorize, which adds the principal named. The set is empty after
\* init, so every gated call is rejected until the first post_upgrade.
C17_MembersOnly ==
    [][/\ \A c \in StableGateSteps :
             /\ last'.res = (IF c \in auth_stable THEN "Ok" ELSE "Rejected")
             /\ c \notin auth_stable => auth_stable' = auth_stable
             /\ last'.op # "stable_authorize" => auth_stable' = auth_stable
             /\ auth_stable \subseteq auth_stable'
             /\ Cardinality(auth_stable' \ auth_stable) <= 1
       /\ auth_stable' # auth_stable
             => \/ last'.op = "post_upgrade" /\ auth_stable' = {last'.caller}
                \/ last'.op = "stable_authorize" /\ last'.caller \in auth_stable
       /\ (auth_stable = {} /\ last'.op # "post_upgrade") => auth_stable' = {}]_vars

\* C17 witness: before any upgrade a call reached the gate and was rejected,
\* and AUTH_STABLE is still empty
C17_Witness ==
    /\ last.op \in StableGateOps
    /\ last.res = "Rejected"
    /\ auth_stable = {}
    /\ \A p \in Principals : granted[p] = {}

\* C18: the value of transform has no headers and the status and body of
\* the response it was applied to, whatever headers that response has;
\* every response with the same status and body has the same value; and the
\* evaluation changes no variable of the canister.
C18_TransformStripsHeaders ==
    [][(evaluated # None /\ evaluated'[1].value # None)
          => LET response == evaluated'[1].response
                 value == evaluated'[1].value[1]
             IN  /\ response = evaluated[1].response
                 /\ value.headers = <<>>
                 /\ value.status = response.status
                 /\ value.body = response.body
                 /\ \A other \in TransformInputs :
                        (other.status = response.status /\ other.body = response.body)
                            => transform(other) = value
                 /\ UNCHANGED Canister]_vars

\* C18 witness: transform was applied to a response with two headers
C18_Witness ==
    /\ evaluated # None
    /\ evaluated[1].value # None
    /\ Len(evaluated[1].response.headers) = MaxHeaders
    /\ evaluated[1].response.headers[1] # evaluated[1].response.headers[2]
    /\ evaluated[1].response.status = 500

\* The provider fees this step charges to provider id: that of the relay
\* through id which the step forwards for a caller who is charged, if the step
\* is one
ChargedFees(id) ==
    { t.prov[1].cycles_per_call + t.prov[1].cycles_per_message_byte + StrLen(t.p) :
        t \in { r \in ProviderRelaySteps :
                  /\ r.prov[1].provider_id = id
                  /\ last'.res = "Pending"
                  /\ ~HoldsFreeRpc(r.c) } }

\* C19: in every step, whatever relays are suspended on their outcalls,
\* cycles_owed of every stored provider grows by the provider fee of the
\* charged relay through it that the step forwards, and keeps its value in
\* every other step, the callbacks of suspended relays included: the balance
\* is the sum of the provider fees charged, and no callback writes back an
\* earlier balance.
C19_NoLostAccrual ==
    [][/\ \A id \in DOMAIN providers :
             /\ id \in DOMAIN providers'
             /\ IF ChargedFees(id) = {}
                THEN providers'[id].cycles_owed = providers[id].cycles_owed
                ELSE providers'[id].cycles_owed - providers[id].cycles_owed
                        \in ChargedFees(id)
       /\ \A x \in OkSteps \cup ErrSteps : providers' = providers]_vars

\* C19 witness: of two charged relays through provider 0 that were suspended
\* at once, one has returned while the other is still suspended, and the
\* provider is owed both fees
C19_Witness ==
    /\ Len(inflight) = 1
    /\ inflight[1].op = "json_rpc_provider_request"
    /\ inflight[1].provider = 0
    /\ inflight[1].accepted > 0
    /\ last.op = "json_rpc_provider_request"
    /\ last.provider = 0
    /\ last.res \in {"Ok", "HttpRequestError"}
    /\ last.accepted > 0
    /\ providers[0].cycles_owed = 2 * (5 + 3 + 2)

\* C20: in every step, a provider record that is stored before and after
\* the step keeps cycles_owed or has it raised; the record differs only if
\* the step forwards a charged relay through that provider, and then only in
\* cycles_owed. withdraw_owned_cycles, authorize and post_upgrade leave
\* PROVIDERS as it is, and register_provider leaves every record that was
\* stored as it is.
C20_OwedNeverDecreases ==
    [][/\ \A id \in DOMAIN providers \cap DOMAIN providers' :
             /\ providers'[id].cycles_owed >= providers[id].cycles_owed
             /\ providers'[id] # providers[id]
                   => /\ ChargedFees(id) # {}
                      /\ providers'[id].cycles_owed > providers[id].cycles_owed
                      /\ providers'[id]
                           = [providers[id] EXCEPT !.cycles_owed = providers'[id].cycles_owed]
       /\ last'.op \in {"withdraw_owned_cycles", "authorize", "post_upgrade"}
             => providers' = providers
       /\ (last'.op = "register_provider" /\ calls' = calls + 1)
             => \A id \in DOMAIN providers :
                    id \in DOMAIN providers' /\ providers'[id] = providers[id]]_vars

\* C20 witness: withdraw_owned_cycles succeeded for the owner of a provider
\* that is owed cycles, and the provider is still owed them
C20_Witness ==
    /\ last.op = "withdraw_owned_cycles"
    /\ last.res = "Ok"
    /\ \E id \in DOMAIN providers :
          providers[id].owner = last.caller /\ providers[id].cycles_owed > 0

\* C21: every call of json_rpc_request or json_rpc_provider_request raises
\* json_rpc_requests by exactly 1 whatever it returns; one that returns
\* ProviderNotFound accepts no funds and leaves PROVIDERS as it is.
C21_EveryAttemptCounted ==
    [][(calls' = calls + 1
          /\ last'.op \in {"json_rpc_request", "json_rpc_provider_request"})
          => /\ metrics'.json_rpc_requests = metrics.json_rpc_requests + 1
             /\ last'.res = "ProviderNotFound"
                   => /\ last'.accepted = 0
                      /\ cycles_accepted' = cycles_accepted
                      /\ providers' = providers]_vars

\* The sum of cycles_owed over the records `ids` of the registry `registry`
RECURSIVE SumOwed(_, _)
SumOwed(registry, ids) ==
    IF ids = {} THEN 0
    ELSE LET id == CHOOSE i \in ids : TRUE
         IN  registry[id].cycles_owed + SumOwed(registry, ids \ {id})

\* What the caller of the charged relay that this step forwards offered
\* beyond what was accepted from it
RefundsOfStep ==
    { t.a - last'.accepted :
        t \in { r \in RelaySteps : last'.res = "Pending" /\ last'.accepted > 0 } }

\* C22: after every step the cycles owed to the stored providers sum to at
\* most the cycles accepted since deployment. post_upgrade starts the
\* charged and refunded counters at 0 and accepts nothing; in every other
\* step the charged counter grows by what the step accepts, and the refunded
\* counter grows by offer minus fee when the step forwards a charged relay
\* and keeps its value otherwise.
C22_FeeConservation ==
    [][/\ SumOwed(providers', DOMAIN providers') <= cycles_accepted'
       /\ metrics'.json_rpc_request_cycles_charged <= cycles_accepted'
       /\ IF last'.op = "post_upgrade"
          THEN /\ metrics'.json_rpc_request_cycles_charged = 0
               /\ metrics'.json_rpc_request_cycles_refunded = 0
               /\ cycles_accepted' = cycles_accepted
          ELSE /\ metrics'.json_rpc_request_cycles_charged
                     - metrics.json_rpc_request_cycles_charged
                   = cycles_accepted' - cycles_accepted
               /\ IF RefundsOfStep = {}
                  THEN metrics'.json_rpc_request_cycles_refunded
                         = metrics.json_rpc_request_cycles_refunded
                  ELSE metrics'.json_rpc_request_cycles_refunded
                         - metrics.json_rpc_request_cycles_refunded \in RefundsOfStep]_vars

\* C22 witness: a relay through a provider was charged on an offer above
\* its fee: the provider is owed cycles and the refunded counter is not 0
C22_Witness ==
    /\ last.op = "json_rpc_provider_request"
    /\ last.res = "Pending"
    /\ last.accepted > 0
    /\ SumOwed(providers, DOMAIN providers) > 0
    /\ metrics.json_rpc_request_cycles_refunded = 1
    /\ metrics.json_rpc_request_cycles_charged = cycles_accepted

GuardedOps == {"authorize", "register_provider", "unregister_provider", "withdraw_owned_cycles"}

====
